---- MODULE Spec2Model ----
(***************************************************************************)
(* Pattern alignment by phase search, echotorch/utils/utility_functions.py *)
(* (align_pattern, pattern_interpolation, find_pattern_interpolation,      *)
(* find_pattern_interpolation_threshold).                                  *)
(*                                                                         *)
(* The four functions are pure.  The state is one input (reference p,      *)
(* generated signal y, interpolation rate) drawn by Init and, for each     *)
(* entry point, what a call on that input produced: the returned values    *)
(* or the exception raised, together with the locals the call held when it *)
(* ended (interpolated signals, lengths, indices read).  A caller applies  *)
(* the four entry points to the input once each, in the order of the       *)
(* source file; the functions share no state, so the order decides nothing.*)
(*                                                                         *)
(* Numbers.  Samples are integers.  An interpolated value is carried       *)
(* multiplied by Scale(rate) = 2*rate^2, which makes every value of the    *)
(* interpolant on the grid k/rate an integer.  lin.norm is carried as its  *)
(* square, in units of Scale(rate)^2: the square root is monotone, so      *)
(* argmax, sorting and the threshold comparison are unchanged.  Arithmetic *)
(* is exact; the rounding of the floating-point code is not modelled (the   *)
(* grid np.arange(0, N - 1.0, 1.0 / rate) is taken to have (N-1)*rate      *)
(* points).                                                                *)
(***************************************************************************)
EXTENDS Integers, Sequences, FiniteSets, TLC

\* Bounds of the model.
MaxPL == 3
MaxCL == 5
MaxRate == 2
MaxThr == 1
MaxNMatches == 2

\* interp1d(kind='quadratic') needs at least three points.
MinLen == 3

\* Sample values of the signals: two values give windows at equal and at
\* different distances, and copies of the reference inside the generated signal.
Vals == {0, 1}

Rates == 1..MaxRate
Thresholds == {<<"fin", t>> : t \in 0..MaxThr} \cup {<<"inf", 0>>}
NMatches == 1..MaxNMatches

SeqsOfLen(n) == [1..n -> Vals]
Signals(lo, hi) == UNION {SeqsOfLen(n) : n \in lo..hi}

VARIABLES p, y, interpolation_rate, r_align, r_pi, r_fpi, r_fpit

vars == <<p, y, interpolation_rate, r_align, r_pi, r_fpi, r_fpit>>

----------------------------------------------------------------------------
\* numpy / python primitives

\* s[i] with python's 0-based index
At(s, i) == s[i + 1]

\* ceil(a / b) for a >= 0, b >= 1
CeilDiv(a, b) == (a + b - 1) \div b

\* np.arange(start, stop, step) on integers, step >= 1
Arange(start, stop, step) ==
    IF stop <= start THEN <<>>
    ELSE [k \in 1..CeilDiv(stop - start, step) |-> start + (k - 1) * step]

\* s[from:to]
Slice(s, from, to) ==
    LET hi == IF to < Len(s) THEN to ELSE Len(s)
    IN  IF hi <= from THEN <<>> ELSE SubSeq(s, from + 1, hi)

RECURSIVE SumSeq(_)
SumSeq(s) == IF s = <<>> THEN 0 ELSE Head(s) + SumSeq(Tail(s))

\* lin.norm(a - b), squared
Norm(a, b) == SumSeq([i \in 1..Len(a) |-> (a[i] - b[i]) * (a[i] - b[i])])

\* -s
Neg(s) == [i \in 1..Len(s) |-> 0 - s[i]]

\* Variant of ArgMax: the last occurrence of the maximum
ArgMaxLast(s) ==
    CHOOSE i \in 0..(Len(s) - 1) :
        /\ \A j \in 0..(Len(s) - 1) : At(s, j) <= At(s, i)
        /\ \A j \in (i + 1)..(Len(s) - 1) : At(s, j) < At(s, i)

\* np.argmax(s): 0-based index of the first occurrence of the maximum
ArgMax(s) ==
    CHOOSE i \in 0..(Len(s) - 1) :
        /\ \A j \in 0..(Len(s) - 1) : At(s, j) <= At(s, i)
        /\ \A j \in 0..(i - 1) : At(s, j) < At(s, i)

\* a[idx] with idx an index array; IndexOK says no index is out of bounds
IndexOK(a, idx) == \A k \in 1..Len(idx) : idx[k] >= 0 /\ idx[k] < Len(a)
Take(a, idx) == [k \in 1..Len(idx) |-> At(a, idx[k])]

----------------------------------------------------------------------------
\* Interpolation

Scale(r) == 2 * r * r

\* Number of points of np.arange(0, N - 1.0, 1.0 / r): the grid 0, 1/r, ... < N-1
GridLen(N, r) == (N - 1) * r

\* Variant of InterpAt: the grid shifted by one point, x = (j + 1) / r
InterpAtShifted(S, r, j) ==
    LET jj == j + 1
        k == jj \div r
        c == IF k = 0 THEN 1 ELSE IF k >= Len(S) - 1 THEN Len(S) - 2 ELSE k
        t == jj - c * r
        a == At(S, c - 1)
        b == At(S, c)
        d == At(S, c + 1)
    IN  2 * r * r * b + (d - a) * t * r + (d - 2 * b + a) * t * t

\* Scale(r) times the value at x = j / r of the quadratic interpolant of S.
\* The interpolant passes through every sample (k, S[k]).  Between samples it
\* is the parabola through the three nearest samples (k-1, k, k+1 on [k, k+1),
\* 0, 1, 2 on [0, 1)).  For N = 3 this is the interpolant scipy builds; for
\* N > 3 scipy's spline also passes through every sample but takes other
\* values between samples.  The properties below constrain selection, order,
\* lengths and indices, whatever the values between samples are; the one about
\* an embedded copy of the reference is stated at rate 1, where the grid holds
\* samples only.
InterpAt(S, r, j) ==
    LET k == j \div r
        c == IF k = 0 THEN 1 ELSE k
        t == j - c * r
        a == At(S, c - 1)
        b == At(S, c)
        d == At(S, c + 1)
    IN  2 * r * r * b + (d - a) * t * r + (d - 2 * b + a) * t * t

\* interp1d(np.arange(N), S, kind='quadratic')(np.arange(0, N - 1.0, 1.0 / r))
Interpolate(S, r) == [j \in 1..GridLen(Len(S), r) |-> InterpAt(S, r, j - 1)]

----------------------------------------------------------------------------
\* Pieces shared by the entry points

\* The call has not been made
NotCalled == [outcome |-> "none"]

\* The call ended with an exception
Raise(exc) == [outcome |-> exc]

\* Variant of PhaseMatches: every window starts one sample late
PhaseMatchesShifted(truth_pattern_int, generated_pattern_int) ==
    LET L == Len(generated_pattern_int)
        M == Len(truth_pattern_int)
    IN  [s \in 1..(L - M) |-> Norm(truth_pattern_int, Slice(generated_pattern_int, s, s + M))]

\* for phases_hift in range(L - M):
\*     phase_matches[phases_hift] =
\*         lin.norm(truth_pattern_int - generated_pattern_int[phases_hift:phases_hift + M])
PhaseMatches(truth_pattern_int, generated_pattern_int) ==
    LET L == Len(generated_pattern_int)
        M == Len(truth_pattern_int)
    IN  [s \in 1..(L - M) |->
            Norm(truth_pattern_int, Slice(generated_pattern_int, s - 1, s - 1 + M))]

\* for shift in range(L - M):
\*     norm_phase_shift[shift] = lin.norm(interpolated_generated[shift:shift + M] - interpolated_pattern)
NormPhaseShift(interpolated_generated, interpolated_pattern) ==
    LET L == Len(interpolated_generated)
        M == Len(interpolated_pattern)
    IN  [s \in 1..(L - M) |->
            Norm(Slice(interpolated_generated, s - 1, s - 1 + M), interpolated_pattern)]

\* Variant of AlignIndices: one index more
AlignIndicesLong(m_pos, PL, r) == Arange(m_pos, m_pos + (PL + 1) * r, r)

\* np.arange(m_pos, m_pos + PL * interpolation_rate, interpolation_rate)
AlignIndices(m_pos, PL, r) == Arange(m_pos, m_pos + PL * r, r)

\* np.ceil(m_pos / interpolation_rate)
OriginalPhase(m_pos, r) == CeilDiv(m_pos, r)

\* error_measure(aligned, p): the caller's measure, here the sum of squared
\* differences between the aligned signal and the reference (in Scale(r)^2 units)
ErrorMeasure(aligned, pattern, r) ==
    SumSeq([i \in 1..Len(pattern) |->
        (aligned[i] - Scale(r) * pattern[i]) * (aligned[i] - Scale(r) * pattern[i])])

\* norms_add and norms_count after the loop over the matches; the mean
\* norms_add / norms_count is carried as the pair <<norms_add, norms_count>>
RECURSIVE Accumulate(_, _, _)
Accumulate(norms, norms_add, norms_count) ==
    IF norms = <<>> THEN <<norms_add, norms_count>>
    ELSE Accumulate(Tail(norms), norms_add + Head(norms), norms_count + 1)

----------------------------------------------------------------------------
\* align_pattern

align_pattern(rate, truth_pattern, generated_pattern) ==
    LET truth_length == Len(truth_pattern)
        truth_pattern_int == Interpolate(truth_pattern, rate)
        generated_pattern_int == Interpolate(generated_pattern, rate)
        L == Len(generated_pattern_int)
        M == Len(truth_pattern_int)
    IN  IF L - M < 0 THEN Raise("ValueError")          \* np.zeros(L - M)
        ELSE IF L - M = 0 THEN Raise("ValueError")     \* np.argmax of an empty array
        ELSE
          LET phase_matches == PhaseMatches(truth_pattern_int, generated_pattern_int)
              max_ind == ArgMax(Neg(phase_matches))
              coarse_max_ind == CeilDiv(max_ind, rate)
              indices == AlignIndices(max_ind, truth_length, rate)
          IN  IF ~IndexOK(generated_pattern_int, indices) THEN Raise("IndexError")
              ELSE [outcome |-> "return",
                    max_ind |-> max_ind,
                    coarse_max_ind |-> coarse_max_ind,
                    generated_aligned |-> Take(generated_pattern_int, indices),
                    truth_pattern_int |-> truth_pattern_int,
                    generated_pattern_int |-> generated_pattern_int,
                    phase_matches |-> phase_matches,
                    indices |-> indices]

AlignPattern ==
    /\ r_align = NotCalled
    /\ r_align' = align_pattern(interpolation_rate, p, y)
    /\ UNCHANGED <<p, y, interpolation_rate, r_pi, r_fpi, r_fpit>>

----------------------------------------------------------------------------
\* pattern_interpolation

pattern_interpolation(pattern, generated, rate) ==
    LET PL == Len(pattern)
        interpolated_generated == Interpolate(generated, rate)
        interpolated_pattern == Interpolate(pattern, rate)
        L == Len(interpolated_generated)
        M == Len(interpolated_pattern)
    IN  IF L - M < 0 THEN Raise("ValueError")
        ELSE IF L - M = 0 THEN Raise("ValueError")
        ELSE
          LET norm_phase_shift == NormPhaseShift(interpolated_generated, interpolated_pattern)
              min_norm == ArgMax(Neg(norm_phase_shift))
              indices == AlignIndices(min_norm, PL, rate)
          IN  IF ~IndexOK(interpolated_generated, indices) THEN Raise("IndexError")
              ELSE
                LET generated_sample_aligned == Take(interpolated_generated, indices)
                IN  [outcome |-> "return",
                     generated_sample_aligned |-> generated_sample_aligned,
                     original_phase |-> OriginalPhase(min_norm, rate),
                     error_aligned |-> ErrorMeasure(generated_sample_aligned, pattern, rate),
                     min_norm |-> min_norm,
                     norm_phase_shift |-> norm_phase_shift,
                     indices |-> indices]

PatternInterpolation ==
    /\ r_align # NotCalled
    /\ r_pi = NotCalled
    /\ r_pi' = pattern_interpolation(p, y, interpolation_rate)
    /\ UNCHANGED <<p, y, interpolation_rate, r_align, r_fpi, r_fpit>>

----------------------------------------------------------------------------
\* find_pattern_interpolation

\* sorted(best_matches, key=lambda tup: tup[0]): python's sort is stable, an
\* element goes after every element whose key is not larger
InsertAfterEqual(sorted, x) ==
    LET k == Cardinality({i \in 1..Len(sorted) : sorted[i][1] <= x[1]})
    IN  SubSeq(sorted, 1, k) \o <<x>> \o SubSeq(sorted, k + 1, Len(sorted))

\* Variant: the element goes before the elements of equal key
InsertBeforeEqual(sorted, x) ==
    LET k == Cardinality({i \in 1..Len(sorted) : sorted[i][1] < x[1]})
    IN  SubSeq(sorted, 1, k) \o <<x>> \o SubSeq(sorted, k + 1, Len(sorted))

RECURSIVE SortedPrefix(_, _)
SortedPrefix(s, n) ==
    IF n = 0 THEN <<>> ELSE InsertAfterEqual(SortedPrefix(s, n - 1), s[n])

RECURSIVE UnstablePrefix(_, _)
UnstablePrefix(s, n) ==
    IF n = 0 THEN <<>> ELSE InsertBeforeEqual(UnstablePrefix(s, n - 1), s[n])

SortedUnstable(s) == UnstablePrefix(s, Len(s))

Sorted(s) == SortedPrefix(s, Len(s))

find_pattern_interpolation(pattern, generated, rate, n_matches) ==
    LET PL == Len(pattern)
        interpolated_generated == Interpolate(generated, rate)
        interpolated_pattern == Interpolate(pattern, rate)
        L == Len(interpolated_generated)
        M == Len(interpolated_pattern)
    IN  IF L - M < 0 THEN Raise("ValueError")
        ELSE
          LET norm_phase_shift == NormPhaseShift(interpolated_generated, interpolated_pattern)
              best_matches == Sorted([s \in 1..(L - M) |-> <<norm_phase_shift[s], s - 1>>])
              n == Len(best_matches)
              indices == [i \in 1..n |-> AlignIndices(best_matches[i][2], PL, rate)]
          IN  IF \E i \in 1..n : ~IndexOK(interpolated_generated, indices[i])
              THEN Raise("IndexError")
              ELSE
                LET aligned == [i \in 1..n |-> Take(interpolated_generated, indices[i])]
                    best_phases == [i \in 1..n |-> OriginalPhase(best_matches[i][2], rate)]
                    phase_norms == [i \in 1..n |-> ErrorMeasure(aligned[i], pattern, rate)]
                    mean == Accumulate(phase_norms, 0, 0)
                IN  IF mean[2] = 0 THEN Raise("ZeroDivisionError")
                    ELSE [outcome |-> "return",
                          best_phases |-> best_phases,
                          phase_norms |-> phase_norms,
                          mean |-> mean,
                          best_matches |-> best_matches,
                          aligned |-> aligned,
                          indices |-> indices]

FindPatternInterpolation ==
    /\ r_pi # NotCalled
    /\ r_fpi = NotCalled
    /\ \E n_matches \in NMatches :
         r_fpi' = find_pattern_interpolation(p, y, interpolation_rate, n_matches)
    /\ UNCHANGED <<p, y, interpolation_rate, r_align, r_pi, r_fpit>>

----------------------------------------------------------------------------
\* find_pattern_interpolation_threshold

\* Variant of BelowThreshold: norm_phase_shift[shift] <= threshold
AtOrBelowThreshold(norm, threshold, r) ==
    \/ threshold[1] = "inf"
    \/ /\ threshold[2] >= 0
       /\ norm <= threshold[2] * threshold[2] * Scale(r) * Scale(r)

\* norm_phase_shift[shift] < threshold, the norm given by its square in
\* Scale(r)^2 units and the threshold in sample units (or +infinity)
BelowThreshold(norm, threshold, r) ==
    \/ threshold[1] = "inf"
    \/ /\ threshold[2] > 0
       /\ norm < threshold[2] * threshold[2] * Scale(r) * Scale(r)

\* matches.append((shift, norm_phase_shift[shift])) for the shifts below the
\* threshold, in scan order
RECURSIVE Matches(_, _, _, _)
Matches(norm_phase_shift, threshold, r, n) ==
    IF n = 0 THEN <<>>
    ELSE LET before == Matches(norm_phase_shift, threshold, r, n - 1)
         IN  IF BelowThreshold(norm_phase_shift[n], threshold, r)
             THEN Append(before, <<n - 1, norm_phase_shift[n]>>)
             ELSE before

\* Variant of MeanThreshold: norms_count = 0
MeanThresholdFromZero(threshold_norms) == Accumulate(threshold_norms, 0, 0)

\* norms_add = 0.0; norms_count = 1; then the loop over the matches
MeanThreshold(threshold_norms) == Accumulate(threshold_norms, 0, 1)

find_pattern_interpolation_threshold(pattern, generated, rate, threshold) ==
    LET PL == Len(pattern)
        interpolated_generated == Interpolate(generated, rate)
        interpolated_pattern == Interpolate(pattern, rate)
        L == Len(interpolated_generated)
        M == Len(interpolated_pattern)
    IN  IF L - M < 0 THEN Raise("ValueError")
        ELSE
          LET norm_phase_shift == NormPhaseShift(interpolated_generated, interpolated_pattern)
              matches == Matches(norm_phase_shift, threshold, rate, L - M)
              n == Len(matches)
              indices == [i \in 1..n |-> AlignIndices(matches[i][1], PL, rate)]
          IN  IF \E i \in 1..n : ~IndexOK(interpolated_generated, indices[i])
              THEN Raise("IndexError")
              ELSE
                LET aligned == [i \in 1..n |-> Take(interpolated_generated, indices[i])]
                    threshold_phases == [i \in 1..n |-> OriginalPhase(matches[i][1], rate)]
                    threshold_norms == [i \in 1..n |-> ErrorMeasure(aligned[i], pattern, rate)]
                IN  [outcome |-> "return",
                     threshold_phases |-> threshold_phases,
                     threshold_norms |-> threshold_norms,
                     mean |-> MeanThreshold(threshold_norms),
                     norm_phase_shift |-> norm_phase_shift,
                     threshold |-> threshold,
                     matches |-> matches,
                     aligned |-> aligned,
                     indices |-> indices]

FindPatternInterpolationThreshold ==
    /\ r_fpi # NotCalled
    /\ r_fpit = NotCalled
    /\ \E threshold \in Thresholds :
         r_fpit' = find_pattern_interpolation_threshold(p, y, interpolation_rate, threshold)
    /\ UNCHANGED <<p, y, interpolation_rate, r_align, r_pi, r_fpi>>

----------------------------------------------------------------------------
\* Specification

Init ==
    /\ p \in Signals(MinLen, MaxPL)
    /\ y \in Signals(MinLen, MaxCL)
    /\ interpolation_rate \in Rates
    /\ r_align = NotCalled
    /\ r_pi = NotCalled
    /\ r_fpi = NotCalled
    /\ r_fpit = NotCalled

Next ==
    \/ AlignPattern
    \/ PatternInterpolation
    \/ FindPatternInterpolation
    \/ FindPatternInterpolationThreshold

Spec == Init /\ [][Next]_vars

----------------------------------------------------------------------------
\* Vocabulary of the properties

Returned(r) == r.outcome = "return"
Called(r) == r # NotCalled

\* Lengths of the interpolated generated signal and of the interpolated reference
LenL == (Len(y) - 1) * interpolation_rate
LenM == (Len(p) - 1) * interpolation_rate

\* The scanned offsets
Offsets == 0..(LenL - LenM - 1)

\* For every scanned offset o, the squared distance between the interpolated
\* reference and the window of the interpolated generated signal that starts
\* at o
WindowDistances ==
    LET G == Interpolate(y, interpolation_rate)
        P == Interpolate(p, interpolation_rate)
    IN  [o \in Offsets |->
            SumSeq([i \in 1..Len(P) |-> (G[o + i] - P[i]) * (G[o + i] - P[i])])]

\* o is the smallest scanned offset of minimum distance, D the distances
IsFirstMinimum(o, D) ==
    /\ o \in Offsets
    /\ \A j \in Offsets : D[o] <= D[j]
    /\ \A j \in Offsets : j < o => D[o] < D[j]

\* o is the original-rate offset of the interpolated offset m: ceil(m / rate)
IsCeilOf(o, m) ==
    /\ o * interpolation_rate >= m
    /\ (o - 1) * interpolation_rate < m

\* For every scanned offset o, the error measure of the realignment at o
\* against the reference
ErrorsAt ==
    LET G == Interpolate(y, interpolation_rate)
        sc == 2 * interpolation_rate * interpolation_rate
    IN  [o \in Offsets |->
            SumSeq([k \in 1..Len(p) |->
                (G[o + (k - 1) * interpolation_rate + 1] - sc * p[k])
              * (G[o + (k - 1) * interpolation_rate + 1] - sc * p[k])])]

----------------------------------------------------------------------------
\* C1: best-of-all selection.  When L - M >= 1, the offset chosen by
\* align_pattern and by pattern_interpolation is a scanned offset 0..L-M-1,
\* its distance is the minimum over all scanned offsets, and among the offsets
\* of minimum distance it is the smallest.
C1_BestOfAll ==
    \A D \in {WindowDistances} :
        /\ (Returned(r_align) /\ LenL - LenM >= 1) =>
              /\ IsFirstMinimum(r_align.max_ind, D)
              /\ Len(r_align.phase_matches) = LenL - LenM
              /\ \A o \in Offsets : r_align.phase_matches[o + 1] = D[o]
        /\ (Returned(r_pi) /\ LenL - LenM >= 1) =>
              /\ IsFirstMinimum(r_pi.min_norm, D)
              /\ Len(r_pi.norm_phase_shift) = LenL - LenM
              /\ \A o \in Offsets : r_pi.norm_phase_shift[o + 1] = D[o]

\* Both entry points returned on an input where the minimum distance is shared
\* by several offsets and is not the distance of every offset.
C1_Witness ==
    /\ Returned(r_align)
    /\ Returned(r_pi)
    /\ r_align.max_ind > 0
    /\ \E o \in Offsets :
          /\ o # r_align.max_ind
          /\ WindowDistances[o] = WindowDistances[r_align.max_ind]
    /\ \E o \in Offsets : WindowDistances[o] > WindowDistances[r_align.max_ind]

----------------------------------------------------------------------------
\* C2: when the search space is degenerate (L - M <= 0) every entry point
\* fails with an error and none returns a result.  (Any exception is taken
\* for the error the claim asks for.)
C2_DegenerateFails ==
    (LenL - LenM <= 0) =>
        \A r \in {r_align, r_pi, r_fpi, r_fpit} : Called(r) => ~Returned(r)

----------------------------------------------------------------------------
\* C3: find_pattern_interpolation returns exactly L - M candidates whatever
\* n_matches is, one per offset 0..L-M-1, ordered by non-decreasing distance,
\* the smaller offset first among equal distances; the error list has the
\* length and the order of the offset list.
C3_RankAll ==
    Returned(r_fpi) =>
        \A D \in {WindowDistances}, E \in {ErrorsAt}, bm \in {r_fpi.best_matches},
           n \in {LenL - LenM} :
            /\ Len(r_fpi.best_phases) = n
            /\ Len(r_fpi.phase_norms) = n
            /\ Len(bm) = n
            /\ {bm[i][2] : i \in 1..n} = Offsets
            /\ \A i \in 1..n : bm[i][1] = D[bm[i][2]]
            /\ \A i, j \in 1..n : i < j =>
                  \/ bm[i][1] < bm[j][1]
                  \/ bm[i][1] = bm[j][1] /\ bm[i][2] < bm[j][2]
            /\ \A i \in 1..n :
                  /\ IsCeilOf(r_fpi.best_phases[i], bm[i][2])
                  /\ r_fpi.phase_norms[i] = E[bm[i][2]]

\* The ranking has more candidates than the largest n_matches, two of them of
\* equal distance, and it is not the scan order.
C3_Witness ==
    /\ Returned(r_fpi)
    /\ Len(r_fpi.best_matches) > MaxNMatches
    /\ \E i \in 1..(Len(r_fpi.best_matches) - 1) :
          r_fpi.best_matches[i][1] = r_fpi.best_matches[i + 1][1]
    /\ \E i \in 1..Len(r_fpi.best_matches) : r_fpi.best_matches[i][2] # i - 1

----------------------------------------------------------------------------
\* C4: find_pattern_interpolation_threshold retains exactly the offsets
\* 0..L-M-1 whose distance is strictly less than the threshold, in ascending
\* offset order: every offset for a threshold of +infinity, none for a
\* threshold of 0 or at or below the minimum distance.
StrictlyBelow(distance, threshold) ==
    \/ threshold[1] = "inf"
    \/ /\ threshold[2] > 0
       /\ distance <
            threshold[2] * threshold[2] * 4
              * interpolation_rate * interpolation_rate
              * interpolation_rate * interpolation_rate

C4_ThresholdFilter ==
    Returned(r_fpit) =>
        \A D \in {WindowDistances}, E \in {ErrorsAt}, ms \in {r_fpit.matches},
           th \in {r_fpit.threshold}, n \in {Len(r_fpit.matches)} :
            /\ {ms[i][1] : i \in 1..n} = {o \in Offsets : StrictlyBelow(D[o], th)}
            /\ \A i, j \in 1..n : i < j => ms[i][1] < ms[j][1]
            /\ Len(r_fpit.threshold_phases) = n
            /\ Len(r_fpit.threshold_norms) = n
            /\ \A i \in 1..n :
                  /\ IsCeilOf(r_fpit.threshold_phases[i], ms[i][1])
                  /\ r_fpit.threshold_norms[i] = E[ms[i][1]]
            /\ th[1] = "inf" => n = LenL - LenM
            /\ (th[1] = "fin" /\ th[2] = 0) => n = 0
            /\ Len(r_fpit.norm_phase_shift) = LenL - LenM
            /\ \A o \in Offsets : r_fpit.norm_phase_shift[o + 1] = D[o]

\* A finite threshold retained some offset and rejected an offset whose
\* distance equals the threshold.
C4_Witness ==
    /\ Returned(r_fpit)
    /\ r_fpit.threshold[1] = "fin"
    /\ Len(r_fpit.matches) >= 1
    /\ \E o \in Offsets :
          /\ ~StrictlyBelow(WindowDistances[o], r_fpit.threshold)
          /\ WindowDistances[o] =
               r_fpit.threshold[2] * r_fpit.threshold[2] * 4
                 * interpolation_rate * interpolation_rate
                 * interpolation_rate * interpolation_rate

----------------------------------------------------------------------------
\* C5: when L - M >= 1 no entry point reads outside the interpolated generated
\* signal: for every candidate offset the PL indices o, o+r, ..., o+r*(PL-1)
\* are at most L - 1, and every realigned signal has exactly PL samples.
IndicesInside(indices) ==
    /\ Len(indices) = Len(p)
    /\ \A k \in 1..Len(indices) : indices[k] >= 0 /\ indices[k] <= LenL - 1

C5_RealignInBounds ==
    (LenL - LenM >= 1) =>
        /\ Called(r_align) =>
              /\ Returned(r_align)
              /\ IndicesInside(r_align.indices)
              /\ Len(r_align.generated_aligned) = Len(p)
        /\ Called(r_pi) =>
              /\ Returned(r_pi)
              /\ IndicesInside(r_pi.indices)
              /\ Len(r_pi.generated_sample_aligned) = Len(p)
        /\ Called(r_fpi) =>
              /\ Returned(r_fpi)
              /\ Len(r_fpi.indices) = LenL - LenM
              /\ \A i \in 1..Len(r_fpi.indices) :
                    /\ IndicesInside(r_fpi.indices[i])
                    /\ Len(r_fpi.aligned[i]) = Len(p)
        /\ Called(r_fpit) =>
              /\ Returned(r_fpit)
              /\ \A i \in 1..Len(r_fpit.indices) :
                    /\ IndicesInside(r_fpit.indices[i])
                    /\ Len(r_fpit.aligned[i]) = Len(p)

\* At a rate above 1 the ranking realigned the last scanned offset, whose last
\* index is the last sample of the interpolated generated signal, and the
\* threshold filter realigned some candidate.
C5_Witness ==
    /\ interpolation_rate >= 2
    /\ Returned(r_align)
    /\ Returned(r_pi)
    /\ Returned(r_fpi)
    /\ Returned(r_fpit)
    /\ Len(r_fpit.indices) >= 1
    /\ \E i \in 1..Len(r_fpi.indices) :
          r_fpi.indices[i][Len(p)] = LenL - 1

----------------------------------------------------------------------------
\* C6 (at interpolation rate 1, where the interpolated signals are the samples
\* themselves): when the generated signal contains exactly one copy of the
\* reference, embedded at index e with padding on both sides, align_pattern
\* returns offset e and an aligned signal equal to the reference.
CopyAt(e) == \A k \in 1..Len(p) : y[e + k] = p[k]

C6_ExactCopyFound ==
    (Returned(r_align) /\ interpolation_rate = 1) =>
        \A e \in 1..(Len(y) - Len(p) - 1) :
            (/\ CopyAt(e)
             /\ \A e2 \in 0..(Len(y) - Len(p)) : e2 # e => ~CopyAt(e2))
            => /\ r_align.max_ind = e
               /\ r_align.coarse_max_ind = e
               /\ r_align.generated_aligned = [k \in 1..Len(p) |-> 2 * p[k]]

----------------------------------------------------------------------------
\* C7: the mean returned by find_pattern_interpolation_threshold is the sum of
\* the retained candidates' errors over (number retained + 1), hence 0 over 1
\* when nothing is retained; find_pattern_interpolation divides the sum of all
\* candidates' errors by their number L - M.
C7_MeanDenominators ==
    /\ Returned(r_fpit) =>
          \A E \in {ErrorsAt} :
              /\ r_fpit.mean[1] =
                    SumSeq([i \in 1..Len(r_fpit.matches) |-> E[r_fpit.matches[i][1]]])
              /\ r_fpit.mean[2] = Len(r_fpit.matches) + 1
              /\ Len(r_fpit.matches) = 0 => r_fpit.mean = <<0, 1>>
    /\ Returned(r_fpi) =>
          \A E \in {ErrorsAt} :
              /\ r_fpi.mean[1] = SumSeq([o \in 1..(LenL - LenM) |-> E[o - 1]])
              /\ r_fpi.mean[2] = LenL - LenM

\* Both functions returned; the threshold filter retained some but not all
\* candidates and their errors do not sum to 0.
C7_Witness ==
    /\ Returned(r_fpi)
    /\ Returned(r_fpit)
    /\ Len(r_fpit.matches) >= 1
    /\ Len(r_fpit.matches) < LenL - LenM
    /\ r_fpit.mean[1] > 0

----------------------------------------------------------------------------
\* C8: round trip of the interpolator.  s[0::r]: every r-th sample from index 0
EveryRth(s, r) == [k \in 1..((Len(s) + r - 1) \div r) |-> s[(k - 1) * r + 1]]

\* The samples S[0..n-1], in the units of the interpolated signal
ScaledPrefix(S, n) == [k \in 1..n |-> 2 * interpolation_rate * interpolation_rate * S[k]]

----------------------------------------------------------------------------
\* C9: every sample of the realigned signal is read inside the window
\* o..o+M-1 that the scan compared with the interpolated reference.
InsideWindow(indices, o) ==
    \A k \in 1..Len(indices) : indices[k] >= o /\ indices[k] <= o + LenM - 1

C9_RealignInsideWindow ==
    /\ Returned(r_align) => InsideWindow(r_align.indices, r_align.max_ind)
    /\ Returned(r_pi) => InsideWindow(r_pi.indices, r_pi.min_norm)

----------------------------------------------------------------------------
\* C10: on the same input with L - M >= 1 the four entry points agree:
\* align_pattern's original-rate offset is pattern_interpolation's original
\* phase and the first original-rate offset of find_pattern_interpolation's
\* ranking, the distance array of find_pattern_interpolation_threshold has its
\* first minimum at align_pattern's interpolated offset, and every
\* original-rate offset is the ceiling of its offset over the rate.
C10_EntryPointsAgree ==
    (Returned(r_align) /\ Returned(r_pi) /\ Returned(r_fpi) /\ Returned(r_fpit)) =>
        LET d == r_fpit.norm_phase_shift
            o == r_align.max_ind
        IN  /\ r_pi.min_norm = o
            /\ r_pi.original_phase = r_align.coarse_max_ind
            /\ r_fpi.best_matches[1][2] = o
            /\ r_fpi.best_phases[1] = r_align.coarse_max_ind
            /\ o + 1 \in 1..Len(d)
            /\ \A j \in 1..Len(d) : d[o + 1] <= d[j]
            /\ \A j \in 1..o : d[o + 1] < d[j]
            /\ r_pi.generated_sample_aligned = r_align.generated_aligned
            /\ IsCeilOf(r_align.coarse_max_ind, o)
            /\ IsCeilOf(r_pi.original_phase, r_pi.min_norm)
            /\ \A i \in 1..Len(r_fpi.best_phases) :
                  IsCeilOf(r_fpi.best_phases[i], r_fpi.best_matches[i][2])
            /\ \A i \in 1..Len(r_fpit.threshold_phases) :
                  IsCeilOf(r_fpit.threshold_phases[i], r_fpit.matches[i][1])

\* The four entry points returned, the best offset is not a multiple of the
\* rate (the ceiling rounds up) and is not the first scanned offset.
C10_Witness ==
    /\ Returned(r_align)
    /\ Returned(r_pi)
    /\ Returned(r_fpi)
    /\ Returned(r_fpit)
    /\ r_align.max_ind % interpolation_rate # 0
    /\ Len(r_fpit.threshold_phases) >= 2

====
